---- MODULE Spec2Model ----
(***************************************************************************)
(* Model of python/text/textindex.py: the redis-backed inverted index      *)
(* (class Index), the text extraction outcome (VisionApi.detect_text) and  *)
(* the ingestion loop (main / get_text_from_file / extract_descriptions).  *)
(*                                                                         *)
(* Representation.  A document string is represented by the sequence of    *)
(* tokens nltk.word_tokenize splits it into; '' is the empty sequence.     *)
(* redis db 1 (filename -> text) and db 0 (token -> set of filenames) are  *)
(* functions whose DOMAIN is the set of keys that exist.  Index.lookup is   *)
(* read-only: its return value is the operator lookup(words), evaluated in *)
(* the state in which the call is made.                                    *)
(***************************************************************************)
EXTENDS Integers, Sequences, FiniteSets, TLC

\* ------------------------------------------------------------------ bounds
MaxLen == 2
MaxQuery == 2
MaxAnnotations == 1

\* ------------------------------------------------------------- vocabulary
\* Words a tokenized document is made of: a capitalised plural, a stopword,
\* a punctuation token and a word whose Snowball stem is not itself a stem
\* fixed point (agree -> agre -> agr).
RawWords == {"Cats", "and", ".", "agree"}

\* Words a caller passes to lookup: raw words and already normalized terms.
QueryWords == {"Cats", "cat", "agree", "agre"}

\* The image files os.walk finds in the input directory, in walk order.
fileslist == <<"img1.png", "img2.png">>

Files == {fileslist[n] : n \in 1..Len(fileslist)}

Documents == UNION {[1..n -> RawWords] : n \in 0..MaxLen}

Queries == UNION {[1..n -> QueryWords] : n \in 0..MaxQuery}

\* redis GET on a missing key
None == <<"<None>">>

\* str.lower()
lower(w) == CASE w = "Cats" -> "cats"
              [] OTHER -> w

\* EnglishStemmer().stem
stem(w) == CASE w = "cats" -> "cat"
             [] w = "agree" -> "agre"
             [] w = "agre" -> "agr"
             [] OTHER -> w

\* nltk.corpus.stopwords.words('english'), restricted to the vocabulary
stopwords == {"and"}

\* ------------------------------------------------------------------ state
VARIABLES
    redis_docs,      \* db 1: filename -> document text
    redis_token,     \* db 0: token -> set of filenames
    pc,              \* "idle", or "main" while main() walks fileslist
    pos,             \* index in fileslist of the file main() handles next
    startProcessed,  \* files that were processed when the current run began
    detected,        \* files the current run called detect_text for
    outcome,         \* per file: what detect_text returned in the current run
    addedTerms,      \* history: <<filename, token>> of every sadd done by add
    touched,         \* history: files passed to add or set_contains_no_text
    wpc,             \* per worker: position in get_text_from_file
    wfile,           \* per worker: the file it handles
    wdoc,            \* per worker: the document string it extracted
    wk               \* per worker: index of the next token in add's loop

indexVars == <<redis_docs, redis_token>>
histVars == <<addedTerms, touched>>
mainVars == <<pc, pos, startProcessed, detected, outcome>>
workerVars == <<wpc, wfile, wdoc, wk>>
vars == <<redis_docs, redis_token, pc, pos, startProcessed, detected, outcome,
          addedTerms, touched, wpc, wfile, wdoc, wk>>

Workers == {"w1", "w2"}

\* ------------------------------------------------------------ redis calls
get(db, key) == IF key \in DOMAIN db THEN db[key] ELSE None

\* Mutation of set: an empty value is not written.
set_unless_empty(db, key, value) ==
    IF value = <<>> THEN db
    ELSE IF key \in DOMAIN db THEN [db EXCEPT ![key] = value]
    ELSE db @@ (key :> value)

set(db, key, value) ==
    IF key \in DOMAIN db THEN [db EXCEPT ![key] = value]
    ELSE db @@ (key :> value)

smembers(db, key) == IF key \in DOMAIN db THEN db[key] ELSE {}

\* Mutation of sadd: the member replaces the set instead of joining it.
sadd_overwrite(db, key, member) ==
    IF key \in DOMAIN db THEN [db EXCEPT ![key] = {member}]
    ELSE db @@ (key :> {member})

\* Mutation of sadd: a member is only stored when the key is new.
sadd_keep_first(db, key, member) ==
    IF key \in DOMAIN db THEN db
    ELSE db @@ (key :> {member})

sadd(db, key, member) ==
    IF key \in DOMAIN db THEN [db EXCEPT ![key] = @ \cup {member}]
    ELSE db @@ (key :> {member})

\* Python truthiness of a redis reply
truthy(res) == res # None /\ res # <<>>

\* ------------------------------------------------------------------ Index
\* One iteration of the loop in Index.add: the token db after handling token.
add_token(db, filename, rawtoken) ==
    LET token == lower(rawtoken) IN
    IF token \in stopwords THEN db
    ELSE IF token \in {".", ",", ":", ""} THEN db
    ELSE sadd(db, stem(token), filename)

RECURSIVE add_tokens(_, _, _)
add_tokens(db, filename, tokens) ==
    IF tokens = <<>> THEN db
    ELSE add_tokens(add_token(db, filename, Head(tokens)), filename,
                    Tail(tokens))

\* The tokens Index.add files a document under.
RECURSIVE terms(_)
terms(document) ==
    IF document = <<>> THEN {}
    ELSE LET token == lower(Head(document)) IN
         (IF token \in stopwords \/ token \in {".", ",", ":", ""}
          THEN {} ELSE {stem(token)}) \cup terms(Tail(document))

RECURSIVE lookup_loop(_, _)
lookup_loop(words, conjunct) ==
    IF words = <<>> THEN conjunct
    ELSE LET word == stem(lower(Head(words)))
             docs_with_word == smembers(redis_token, word)
             word_hits == {<<id, get(redis_docs, id)>> : id \in docs_with_word}
         IN lookup_loop(Tail(words),
                        IF conjunct # {} THEN conjunct \cap word_hits
                        ELSE word_hits)

\* Mutation of lookup: a query without words matches every stored file.
lookup_all_when_empty(words) ==
    IF words = <<>>
    THEN {<<id, get(redis_docs, id)>> : id \in DOMAIN redis_docs}
    ELSE lookup_loop(words, {})

lookup(words) == lookup_loop(words, {})

\* Mutation of document_is_processed: the res == '' branch is missing.
document_is_processed_truthy(filename) ==
    truthy(get(redis_docs, filename))

document_is_processed(filename) ==
    LET res == get(redis_docs, filename) IN
    IF truthy(res) THEN TRUE
    ELSE IF res = <<>> THEN TRUE
    ELSE FALSE

\* The tokens under which filename is a member in db 0.
postingsOf(filename) ==
    {t \in DOMAIN redis_token : filename \in redis_token[t]}

\* Effect of Index.add on the two databases and the history.
add(filename, document) ==
    /\ redis_token' = add_tokens(redis_token, filename, document)
    /\ redis_docs' = set(redis_docs, filename, document)
    /\ addedTerms' = addedTerms \cup {<<filename, t>> : t \in terms(document)}
    /\ touched' = touched \cup {filename}

\* Effect of Index.set_contains_no_text.
set_contains_no_text(filename) ==
    /\ redis_docs' = set(redis_docs, filename, <<>>)
    /\ touched' = touched \cup {filename}
    /\ UNCHANGED <<redis_token, addedTerms>>

\* ------------------------------------------------- direct calls on Index
Add(filename, document) ==
    /\ pc = "idle"
    /\ add(filename, document)
    /\ UNCHANGED <<mainVars, workerVars>>

SetContainsNoText(filename) ==
    /\ pc = "idle"
    /\ set_contains_no_text(filename)
    /\ UNCHANGED <<mainVars, workerVars>>

Lookup(words) ==
    /\ pc = "idle"
    /\ lookup(words) \subseteq Files \X (Documents \cup {None})
    /\ UNCHANGED <<indexVars, histVars, mainVars, workerVars>>

\* ------------------------------------------------------- ingestion driver
\* What VisionApi.detect_text returns: None after an HttpError/KeyError,
\* [] when the response has no textAnnotations, else the annotations.  An
\* annotation is a token (its 'description') or lacks the key.
NoDescription == "<no description>"
FailedDetect == <<"<failed>">>
Annotations ==
    UNION {[1..n -> RawWords \cup {NoDescription}] : n \in 1..MaxAnnotations}
DetectOutcomes == {FailedDetect, <<>>} \cup Annotations

\* The document extract_descriptions concatenates from the annotations.
RECURSIVE concat_descriptions(_)
concat_descriptions(texts) ==
    IF texts = <<>> THEN <<>>
    ELSE (IF Head(texts) = NoDescription THEN <<>> ELSE <<Head(texts)>>)
         \o concat_descriptions(Tail(texts))

\* Which of its three kinds of value detect_text returned.
outcome_kind(texts) ==
    IF texts = FailedDetect THEN "failed"
    ELSE IF texts = <<>> THEN "empty"
    ELSE "text"

NoOutcome == [f \in Files |-> "none"]

\* Mutation of extract_descriptions: the test texts == [] is missing, so a
\* failed detection is recorded like an empty one.
extract_descriptions_falsy(input_filename, texts) ==
    IF texts # FailedDetect /\ texts # <<>>
    THEN add(input_filename, concat_descriptions(texts))
    ELSE set_contains_no_text(input_filename)

\* Mutation of extract_descriptions: the else branch is missing, so an
\* empty detection records nothing.
extract_descriptions_no_else(input_filename, texts) ==
    IF texts # FailedDetect /\ texts # <<>>
    THEN add(input_filename, concat_descriptions(texts))
    ELSE UNCHANGED <<indexVars, histVars>>

extract_descriptions(input_filename, texts) ==
    IF texts # FailedDetect /\ texts # <<>>
    THEN add(input_filename, concat_descriptions(texts))
    ELSE IF texts = <<>>
    THEN set_contains_no_text(input_filename)
    ELSE UNCHANGED <<indexVars, histVars>>

MainStart ==
    /\ pc = "idle"
    /\ pc' = "main"
    /\ pos' = 1
    /\ startProcessed' = {f \in Files : document_is_processed(f)}
    /\ detected' = {}
    /\ outcome' = NoOutcome
    /\ UNCHANGED <<indexVars, histVars, workerVars>>

MainSkip ==
    /\ pc = "main"
    /\ pos <= Len(fileslist)
    /\ document_is_processed(fileslist[pos])
    /\ pos' = pos + 1
    /\ UNCHANGED <<indexVars, histVars, pc, startProcessed, detected,
                   outcome, workerVars>>

\* Mutation of MainGetText: the file is handled without the
\* document_is_processed check.
MainGetTextUnchecked ==
    /\ pc = "main"
    /\ pos <= Len(fileslist)
    /\ \E texts \in DetectOutcomes :
          /\ extract_descriptions(fileslist[pos], texts)
          /\ outcome' = [outcome EXCEPT ![fileslist[pos]] = outcome_kind(texts)]
    /\ detected' = detected \cup {fileslist[pos]}
    /\ pos' = pos + 1
    /\ UNCHANGED <<pc, startProcessed, workerVars>>

MainGetText ==
    /\ pc = "main"
    /\ pos <= Len(fileslist)
    /\ ~document_is_processed(fileslist[pos])
    /\ \E texts \in DetectOutcomes :
          /\ extract_descriptions(fileslist[pos], texts)
          /\ outcome' = [outcome EXCEPT ![fileslist[pos]] = outcome_kind(texts)]
    /\ detected' = detected \cup {fileslist[pos]}
    /\ pos' = pos + 1
    /\ UNCHANGED <<pc, startProcessed, workerVars>>

MainEnd ==
    /\ pc = "main"
    /\ pos > Len(fileslist)
    /\ pc' = "idle"
    /\ pos' = 1
    /\ startProcessed' = {}
    /\ detected' = {}
    /\ outcome' = NoOutcome
    /\ UNCHANGED <<indexVars, histVars, workerVars>>

\* ------------------------------------------------- concurrent ingestion
\* Two ingestion processes run the body of main's loop against the same
\* redis server.  Each redis command is one step; the commands of the two
\* processes interleave freely.  A worker handles one file and stops.

\* index.document_is_processed(filename) at line 258
WCheck(w, f) ==
    /\ wpc[w] = "start"
    /\ wfile' = [wfile EXCEPT ![w] = f]
    /\ wpc' = [wpc EXCEPT ![w] =
                 IF document_is_processed(f) THEN "skipped" ELSE "detect"]
    /\ UNCHANGED <<indexVars, histVars, mainVars, wdoc, wk>>

\* vision.detect_text and the branch extract_descriptions takes on its value
WDetect(w) ==
    /\ wpc[w] = "detect"
    /\ \E texts \in DetectOutcomes :
          IF texts # FailedDetect /\ texts # <<>>
          THEN /\ wdoc' = [wdoc EXCEPT ![w] = concat_descriptions(texts)]
               /\ wpc' = [wpc EXCEPT ![w] = "add"]
          ELSE /\ wdoc' = wdoc
               /\ wpc' = [wpc EXCEPT ![w] =
                            IF texts = <<>> THEN "no_text" ELSE "failed"]
    /\ wk' = [wk EXCEPT ![w] = 1]
    /\ UNCHANGED <<indexVars, histVars, mainVars, wfile>>

\* one iteration of the for loop of Index.add
WAddToken(w) ==
    /\ wpc[w] = "add"
    /\ wk[w] <= Len(wdoc[w])
    /\ redis_token' = add_token(redis_token, wfile[w], wdoc[w][wk[w]])
    /\ addedTerms' = addedTerms \cup
                       {<<wfile[w], t>> : t \in terms(<<wdoc[w][wk[w]]>>)}
    /\ wk' = [wk EXCEPT ![w] = @ + 1]
    /\ UNCHANGED <<redis_docs, touched, mainVars, wpc, wfile, wdoc>>

\* Mutation of WAddSet: the text is stored without waiting for the loop
\* over the tokens to end.
WAddSetEarly(w) ==
    /\ wpc[w] = "add"
    /\ redis_docs' = set(redis_docs, wfile[w], wdoc[w])
    /\ touched' = touched \cup {wfile[w]}
    /\ wpc' = [wpc EXCEPT ![w] = "added"]
    /\ UNCHANGED <<redis_token, addedTerms, mainVars, wfile, wdoc, wk>>

\* the redis_docs_client.set that ends Index.add
WAddSet(w) ==
    /\ wpc[w] = "add"
    /\ wk[w] > Len(wdoc[w])
    /\ redis_docs' = set(redis_docs, wfile[w], wdoc[w])
    /\ touched' = touched \cup {wfile[w]}
    /\ wpc' = [wpc EXCEPT ![w] = "added"]
    /\ UNCHANGED <<redis_token, addedTerms, mainVars, wfile, wdoc, wk>>

WSetContainsNoText(w) ==
    /\ wpc[w] = "no_text"
    /\ set_contains_no_text(wfile[w])
    /\ wpc' = [wpc EXCEPT ![w] = "marked"]
    /\ UNCHANGED <<mainVars, wfile, wdoc, wk>>

WorkerFinished(w) == wpc[w] \in {"skipped", "failed", "added", "marked"}

\* ---------------------------------------------------------- specification
Init ==
    /\ redis_docs = <<>>
    /\ redis_token = <<>>
    /\ pc = "idle"
    /\ pos = 1
    /\ startProcessed = {}
    /\ detected = {}
    /\ outcome = NoOutcome
    /\ addedTerms = {}
    /\ touched = {}
    /\ wpc = [w \in Workers |-> "start"]
    /\ wfile = [w \in Workers |-> fileslist[1]]
    /\ wdoc = [w \in Workers |-> <<>>]
    /\ wk = [w \in Workers |-> 1]

\* One process: calls on an Index object and runs of main(), one at a time.
Next ==
    \/ \E f \in Files, document \in Documents : Add(f, document)
    \/ \E f \in Files : SetContainsNoText(f)
    \/ \E words \in Queries : Lookup(words)
    \/ MainStart
    \/ MainSkip
    \/ MainGetText
    \/ MainEnd

Spec == Init /\ [][Next]_vars

\* Two concurrent ingestion workers on a fresh index, and lookups at any
\* moment in between their redis commands.
NextConc ==
    \/ \E w \in Workers, f \in Files : WCheck(w, f)
    \/ \E w \in Workers : WDetect(w)
    \/ \E w \in Workers : WAddToken(w)
    \/ \E w \in Workers : WAddSet(w)
    \/ \E w \in Workers : WSetContainsNoText(w)
    \/ \E words \in Queries : Lookup(words)

SpecConc == Init /\ [][NextConc]_vars

\* Repeated runs of main() over fileslist, and nothing else.  The runs keep
\* coming (weak fairness of the driver's steps) and detect_text does not
\* fail for ever on a file it is called for again and again (strong fairness
\* of the steps in which it returns annotations or []).
NextMain ==
    \/ MainStart
    \/ MainSkip
    \/ MainGetText
    \/ MainEnd

MainGetTextDone ==
    /\ MainGetText
    /\ outcome'[fileslist[pos]] # "failed"

SpecLive ==
    /\ Init
    /\ [][NextMain]_vars
    /\ WF_vars(NextMain)
    /\ SF_vars(MainGetTextDone)

\* ------------------------------------------------------------ type check
TypeOK ==
    /\ DOMAIN redis_docs \subseteq Files
    /\ \A f \in DOMAIN redis_docs : redis_docs[f] \in Documents
    /\ \A t \in DOMAIN redis_token : redis_token[t] \subseteq Files
    /\ pc \in {"idle", "main"}
    /\ pos \in 1..(Len(fileslist) + 1)
    /\ startProcessed \subseteq Files
    /\ detected \subseteq Files
    /\ touched \subseteq Files
    /\ outcome \in [Files -> {"none", "failed", "empty", "text"}]

\* ------------------------------------------------------------------ claims

\* C1: for every file f that is already processed and every document t,
\* add(f, t) leaves the document store and the posting store exactly as they
\* were (the call is rejected as AlreadyIndexed).
C1_AddOfProcessedChangesNothing ==
    [][\A f \in Files, document \in Documents :
          (Add(f, document) /\ document_is_processed(f))
              => UNCHANGED indexVars]_vars

\* C2: after any sequence of completed add and set_contains_no_text calls,
\* direct or through main(), a file is a member of the posting of token T if
\* and only if T is one of the terms of the text currently stored for it.
C2_PostingIffTermOfStoredText ==
    \A f \in Files :
        postingsOf(f) = IF document_is_processed(f)
                        THEN terms(get(redis_docs, f)) ELSE {}

\* C3 (as stated): for every file added with a document and every term
\* produced by normalizing that document, lookup([term]) includes the file
\* paired with its stored text, whatever else was done before or after.
C3_LookupFindsEveryTerm ==
    \A ft \in addedTerms :
        <<ft[1], get(redis_docs, ft[1])>> \in lookup(<<ft[2]>>)

\* C3 (amended): the same, for every term of the document that lookup's own
\* lower-casing and stemming of its argument leave unchanged.
C3_LookupFindsEveryStableTerm ==
    \A ft \in addedTerms :
        stem(lower(ft[2])) = ft[2]
            => <<ft[1], get(redis_docs, ft[1])>> \in lookup(<<ft[2]>>)

\* A file was added under "cat", its text was then replaced by the no-text
\* marker, and another file was added under the same term.
C3_Witness ==
    /\ <<"img1.png", "cat">> \in addedTerms
    /\ get(redis_docs, "img1.png") = <<>>
    /\ "img2.png" \in smembers(redis_token, "cat")
    /\ <<"img1.png", <<>>>> \in lookup(<<"cat">>)

\* The terms lookup reduces its query words to.
QueryTerms == {stem(lower(w)) : w \in QueryWords}

\* C4: for any index state and any two distinct normalized terms a and b,
\* lookup([a, b]) equals lookup([a]) intersected with lookup([b]).
C4_LookupIsIntersection ==
    \A a, b \in QueryTerms :
        a # b => lookup(<<a, b>>) = lookup(<<a>>) \cap lookup(<<b>>)

\* C5: a run of main() calls detect_text only for files that were
\* unprocessed when it began, and no step of the run changes the stored text
\* or the postings of a file that was processed when it began.
C5_RunLeavesProcessedFilesAlone ==
    [][pc = "main" =>
          /\ detected' \cap startProcessed = {}
          /\ \A f \in startProcessed :
                /\ get(redis_docs, f)' = get(redis_docs, f)
                /\ postingsOf(f)' = postingsOf(f)]_vars

\* The end of a run that began with one file processed (with text) and
\* called detect_text for, and indexed, the other.
C5_Witness ==
    /\ pc = "main"
    /\ pos > Len(fileslist)
    /\ startProcessed = {"img1.png"}
    /\ truthy(get(redis_docs, "img1.png"))
    /\ detected = {"img2.png"}
    /\ postingsOf("img2.png") # {}

\* C6: when two workers process the same file concurrently, at most one of
\* them writes it, and once both are finished the postings of the file are
\* exactly the terms of its stored text.
C6_ConcurrentSameFileConsistent ==
    (/\ \A w \in Workers : wpc[w] \in {"added", "skipped"}
     /\ \A v, w \in Workers : wfile[v] = wfile[w])
    => \A f \in {wfile[w] : w \in Workers} :
          /\ Cardinality({w \in Workers : wpc[w] = "added"}) <= 1
          /\ document_is_processed(f)
                => postingsOf(f) = terms(get(redis_docs, f))

\* C7: set_contains_no_text(f) on a processed file does not overwrite the
\* stored text; on an unprocessed file it stores the no-text marker and
\* leaves the posting store unchanged.
C7_MarkEmptyKeepsStoredText ==
    [][\A f \in Files :
          SetContainsNoText(f) =>
              IF document_is_processed(f)
              THEN redis_docs' = redis_docs
              ELSE get(redis_docs, f)' = <<>> /\ redis_token' = redis_token]_vars

\* C8: once document_is_processed(f) is true it is true in every later
\* state, whatever add, set_contains_no_text, lookup or main() step follows.
C8_ProcessedIsTerminal ==
    [][\A f \in Files :
          document_is_processed(f) => document_is_processed(f)']_vars

\* A file that was indexed with text and afterwards marked as having no
\* text: it is still processed.
C8_Witness ==
    \E f \in Files :
        /\ postingsOf(f) # {}
        /\ get(redis_docs, f) = <<>>
        /\ document_is_processed(f)

\* C9: document_is_processed(f) is true exactly when db 1 holds an entry for
\* f, the empty text counting as an entry: true for every file that was
\* ever passed to add or set_contains_no_text, false for every other file.
C9_ProcessedIffEntry ==
    \A f \in Files :
        /\ document_is_processed(f) <=> f \in DOMAIN redis_docs
        /\ document_is_processed(f) <=> f \in touched

\* One file holds the empty text and is processed, the other was never
\* added or marked and is not.
C9_Witness ==
    /\ "img2.png" \in touched
    /\ get(redis_docs, "img2.png") = <<>>
    /\ document_is_processed("img2.png")
    /\ "img1.png" \notin touched
    /\ ~document_is_processed("img1.png")

\* C10: lookup with no words returns the empty set in every index state.
C10_EmptyQueryReturnsNothing == lookup(<<>>) = {}

\* An index in which a one-word lookup has hits.
C10_Witness ==
    /\ lookup(<<"Cats">>) # {}
    /\ lookup(<<>>) = {}

\* C11: when detect_text fails for a file during a run, the run writes
\* nothing for it: both databases are unchanged by that step, the file stays
\* unprocessed for the rest of the run, the run goes on to the next file,
\* and any run that reaches the file while it is unprocessed calls
\* detect_text for it again.
C11_FailedDetectWritesNothing ==
    [][/\ (pc = "main" /\ pos <= Len(fileslist)) =>
             LET f == fileslist[pos] IN
             /\ outcome'[f] = "failed" =>
                    /\ UNCHANGED indexVars
                    /\ pc' = "main"
                    /\ pos' = pos + 1
             /\ ~document_is_processed(f) => f \in detected'
       /\ \A f \in Files :
             (pc' = "main" /\ outcome'[f] = "failed")
                 => ~document_is_processed(f)']_vars

\* The end of a run in which detect_text failed for the first file and
\* returned text for the second: the first is unprocessed, the second is
\* indexed.
C11_Witness ==
    /\ pc = "main"
    /\ pos > Len(fileslist)
    /\ outcome["img1.png"] = "failed"
    /\ "img1.png" \in detected
    /\ ~document_is_processed("img1.png")
    /\ outcome["img2.png"] = "text"
    /\ document_is_processed("img2.png")

\* C12: lookup never returns a result pair with a missing text: a file that
\* is in a posting but has no entry in db 1 makes lookup fail
\* (InconsistentIndex) instead.
C12_LookupNeverReturnsMissingText ==
    \A words \in Queries :
        \A h \in lookup(words) : h[2] # None

AllProcessed == \A f \in Files : document_is_processed(f)

\* C13: under repeated runs in which detect_text eventually returns a
\* non-failure value for every file, eventually every file is processed for
\* good; from then on no step of a run calls detect_text or changes either
\* database.
C13_EventuallyAllProcessedThenQuiet ==
    /\ <>[]AllProcessed
    /\ [][AllProcessed =>
             /\ UNCHANGED indexVars
             /\ detected' \subseteq detected]_vars

\* The end of a run that found every file processed and called detect_text
\* for none.
C13_Witness ==
    /\ AllProcessed
    /\ pc = "main"
    /\ pos > Len(fileslist)
    /\ startProcessed = Files
    /\ detected = {}

\* C14: when two workers add different files, whatever the interleaving of
\* their sadd and set commands, the two databases end as after running the
\* two adds one after the other, in either order.
C14_DistinctFilesCommute ==
    (/\ \A w \in Workers : wpc[w] = "added"
     /\ wfile["w1"] # wfile["w2"])
    => LET f1 == wfile["w1"]
           d1 == wdoc["w1"]
           f2 == wfile["w2"]
           d2 == wdoc["w2"]
       IN /\ redis_token = add_tokens(add_tokens(<<>>, f1, d1), f2, d2)
          /\ redis_token = add_tokens(add_tokens(<<>>, f2, d2), f1, d1)
          /\ redis_docs = set(set(<<>>, f1, d1), f2, d2)
          /\ redis_docs = set(set(<<>>, f2, d2), f1, d1)

\* Both workers have added a document with the same term to different
\* files.
C14_Witness ==
    /\ \A w \in Workers : wpc[w] = "added"
    /\ wfile["w1"] # wfile["w2"]
    /\ \A w \in Workers : wdoc[w] = <<"Cats">>
    /\ smembers(redis_token, "cat") = Files

\* C16: in every reachable state, the states between the redis commands of
\* an add included, a file whose entry in db 1 holds text T is a member of
\* the posting of every term of T.
C16_StoredTextIsInItsPostings ==
    \A f \in DOMAIN redis_docs : terms(redis_docs[f]) \subseteq postingsOf(f)

\* One worker has completed the add of a file with a term, while the other
\* is inside the token loop of an add of the same file.
C16_Witness ==
    \E v, w \in Workers :
        /\ wpc[v] = "added"
        /\ terms(get(redis_docs, wfile[v])) # {}
        /\ wpc[w] = "add"
        /\ wk[w] <= Len(wdoc[w])
        /\ wfile[w] = wfile[v]

\* C15: when detect_text returns [] for an unprocessed file, the run marks
\* it: from that step to the end of the run the file is processed, its
\* stored text is the no-text marker and it is in no posting; and a run that
\* reaches a processed file skips it without calling detect_text.
C15_EmptyDetectMarksFile ==
    [][/\ \A f \in Files :
             (pc' = "main" /\ outcome'[f] = "empty") =>
                 /\ document_is_processed(f)'
                 /\ get(redis_docs, f)' = <<>>
                 /\ postingsOf(f)' = {}
       /\ (pc = "main" /\ pos <= Len(fileslist)
              /\ document_is_processed(fileslist[pos])) =>
             /\ detected' = detected
             /\ UNCHANGED indexVars]_vars

\* The end of a run in which detect_text returned [] for the second file,
\* the first having been indexed with text before the run.
C15_Witness ==
    /\ pc = "main"
    /\ pos > Len(fileslist)
    /\ outcome["img2.png"] = "empty"
    /\ get(redis_docs, "img2.png") = <<>>
    /\ startProcessed = {"img1.png"}
    /\ postingsOf("img1.png") # {}

\* C17: for any index state and any non-empty sequence of query words,
\* every file lookup returns is a member of the posting of every one of the
\* normalized query words.
C17_HitsAreInEveryPosting ==
    \A words \in Queries :
        \A h \in lookup(words) :
            \A i \in 1..Len(words) :
                h[1] \in smembers(redis_token, stem(lower(words[i])))

\* C18: the result of lookup does not depend on the order of the query
\* words: lookup([a, b]) equals lookup([b, a]).
C18_LookupOrderIrrelevant ==
    \A a, b \in QueryWords : lookup(<<a, b>>) = lookup(<<b, a>>)

\* C19: the posting store only grows: no step removes a key of db 0 or a
\* member of one of its sets; and sadd of a member that is already in the
\* set leaves db 0 as it is.
C19_PostingsOnlyGrow ==
    [][/\ \A t \in DOMAIN redis_token :
             /\ t \in DOMAIN redis_token'
             /\ redis_token[t] \subseteq redis_token'[t]
       /\ \A t \in DOMAIN redis_token' :
             \A f \in redis_token'[t] :
                 sadd(redis_token', t, f) = redis_token']_vars

\* Both files are in the posting of "cat" and one is also in that of
\* "agre", after the text of the first was replaced.
C19_Witness ==
    /\ smembers(redis_token, "cat") = Files
    /\ smembers(redis_token, "agre") = {"img1.png"}
    /\ get(redis_docs, "img1.png") = <<"and">>

====
